---- MODULE Spec2Model ----
(***************************************************************************)
(* The agent execution graph (src/langchain_components/agent_graph.py) and *)
(* the result extraction of the agent routes (src/api/routers/writing.py). *)
(*                                                                         *)
(* A text is a sequence of tokens; the marker phrase, the blank and the    *)
(* path separator are tokens of their own, so that searching, splitting    *)
(* and trimming are computed on the text as the code computes them.        *)
(***************************************************************************)
EXTENDS Integers, Sequences, FiniteSets, TLC

VARIABLES
    node,          \* position of the graph: "agent", "action", "end", "raised"
    messages,      \* state['messages'] of the run
    step,          \* supersteps (node executions) of the run so far
    turns,         \* Model Steps started (call_model entered)
    toolSteps,     \* Tool Steps executed (call_tool_with_logging entered)
    modelFailed,   \* model.invoke raised in this run
    invoked,       \* tool invocations with their results, in request order
    stream,        \* events produced and not yet consumed by the route
    final_state,   \* the route's final_state
    tool_outputs,  \* the route's tool_outputs, tool name -> outputs
    consumed,      \* events the route has consumed, in order
    rpc,           \* position of the route: "stream", "done", "raised"
    outcomes,      \* WriteResponses returned by the route
    runs,          \* concurrent requests: request -> its graph run and route
    registry,      \* the module-level tools list the graph and the model share
    fan            \* a request of a fan-out route: its branches and response

vars == <<node, messages, step, turns, toolSteps, modelFailed, invoked,
          stream, final_state, tool_outputs, consumed, rpc, outcomes,
          runs, registry, fan>>

graphVars == <<node, messages, step, turns, toolSteps, modelFailed, invoked>>
routeVars == <<final_state, tool_outputs, consumed, rpc, outcomes>>
sideVars == <<runs, registry, fan>>

-----------------------------------------------------------------------------
(* Bounds of the model *)

\* responses of the language model that are drawn from the full response set;
\* later responses are drawn from TailResponses
MaxTurns == 2

\* largest number of tool calls in one model response
MaxBatch == 2

\* events that may wait in the stream when the graph takes its next step
MaxBuffered == 1

\* largest number of events of a substituted event stream
MaxEvents == 3

\* largest number of branches of a fan-out request
MaxBranches == 2

\* the step limit of the specification's example
StepLimit == 3

\* supersteps a compiled graph runs when astream_events is given no config
RecursionLimit == 25

-----------------------------------------------------------------------------
(* Texts *)

MARK == "successfully saved to"
SP == " "
SL == "/"

Last(s) == s[Len(s)]

\* "tok in s" for a one-token needle
Contains(s, tok) == \E i \in 1..Len(s) : s[i] = tok

\* s.find(tok), 0 when absent
IndexOf(s, tok) ==
    IF Contains(s, tok)
    THEN CHOOSE i \in 1..Len(s) : s[i] = tok /\ \A j \in 1..(i-1) : s[j] # tok
    ELSE 0

\* s.split(tok)[1]: the text between the first and the second occurrence
SplitSecond(s, tok) ==
    LET i == IndexOf(s, tok)
        rest == SubSeq(s, i + 1, Len(s))
        j == IndexOf(rest, tok)
    IN  IF j = 0 THEN rest ELSE SubSeq(rest, 1, j - 1)

\* the text after the first occurrence of tok, to the end
AfterFirst(s, tok) == SubSeq(s, IndexOf(s, tok) + 1, Len(s))

RECURSIVE LStrip(_)
LStrip(s) == IF s # <<>> /\ Head(s) = SP THEN LStrip(Tail(s)) ELSE s

RECURSIVE RStrip(_)
RStrip(s) ==
    IF s # <<>> /\ Last(s) = SP THEN RStrip(SubSeq(s, 1, Len(s) - 1)) ELSE s

\* str.strip()
Strip(s) == RStrip(LStrip(s))

RECURSIVE RStripSlash(_)
RStripSlash(s) ==
    IF s # <<>> /\ Last(s) = SL THEN RStripSlash(SubSeq(s, 1, Len(s) - 1))
    ELSE s

\* position of the last tok in s, 0 when absent
LastIndexOf(s, tok) ==
    IF Contains(s, tok)
    THEN CHOOSE i \in 1..Len(s) : s[i] = tok /\ \A j \in (i+1)..Len(s) : s[j] # tok
    ELSE 0

\* a variant of PathName that keeps the directories
PathName_Whole(p) == p

\* Path(p).name: the last path segment
PathName(p) ==
    LET q == RStripSlash(p)
    IN  SubSeq(q, LastIndexOf(q, SL) + 1, Len(q))

-----------------------------------------------------------------------------
(* Tools *)

\* tools = [generate_image, translate_text, search_and_summarize, ...]
tools == {"generate_image", "translate_text", "search_and_summarize",
          "save_article", "read_article", "save_image_with_compression",
          "finish"}

\* the names of the tools, in the order of the list
tool_names == <<"generate_image", "translate_text", "search_and_summarize",
                "save_article", "read_article", "save_image_with_compression",
                "finish">>

\* what a tool invocation does: it returns a str, returns a dict (seen through
\* the key the callers look for), or raises
Returned(out) == [kind |-> "return", key |-> "", output |-> out]
ReturnedDict(key, out) == [kind |-> "return", key |-> key, output |-> out]
Thrown(txt) == [kind |-> "throw", key |-> "", output |-> txt]

\* save_dir / f"{filename}.md"
MdPath(output_dir, filename) == output_dir \o <<SL>> \o filename \o <<".md">>

SaveErrorText == <<"Error saving article">>

\* save_article: the success text, or the text of the caught exception
save_article(filename, output_dir) ==
    { Returned(<<"Article", SP, MARK, SP>> \o MdPath(output_dir, filename)),
      Returned(SaveErrorText) }

ImgPath(filename) == <<"output", SL, "img", SL>> \o filename \o <<".png">>

\* save_image_with_compression: success, an error text, or an exception of
\* the download, which is outside its try block
save_image_with_compression(filename) ==
    { Returned(<<"Image", SP, MARK, SP>> \o ImgPath(filename)),
      Returned(<<"Error: Invalid input.">>),
      Thrown(<<"ClientResponseError">>) }

\* search_and_summarize returns a summary; its failures are returned as text
search_and_summarize(topic) == { Returned(<<"Summary of Findings">>) }

\* finish returns its argument
finish(final_summary) == { Returned(final_summary) }

\* save_dir / f"{uuid.uuid4()}.png"
GenPath(uuid) == <<"output", SL, "img_exist", SL, uuid, ".png">>

GenErrorText == <<"An error occurred during image generation">>

\* generate_image: {"message": ..., "file_path": ...}, or {"error": ...};
\* uuid is the uuid4 the invocation draws
generate_image(scene_description, uuid) ==
    { ReturnedDict("file_path", GenPath(uuid)),
      ReturnedDict("error", GenErrorText) }

TranslationErrorText == <<"Error during translation">>

\* a variant of translate_text without its except clause
translate_text_Raises(text, target_language) ==
    { Returned(<<"Translated", target_language>>),
      Thrown(<<"APIConnectionError">>) }

\* translate_text: the translation, or the text of the caught exception
translate_text(text, target_language) ==
    { Returned(<<"Translated", target_language>>),
      Returned(TranslationErrorText) }

MdDir == <<"output", SL, "md">>

\* the results a tool call can have
ToolResults(call) ==
    CASE call.name = "save_article" -> save_article(call.args, MdDir)
      [] call.name = "save_image_with_compression" ->
            save_image_with_compression(call.args)
      [] call.name = "search_and_summarize" -> search_and_summarize(call.args)
      [] call.name = "finish" -> finish(call.args)
      [] call.name = "generate_image" -> generate_image(call.args, "uuid")
      [] OTHER -> { Thrown(<<"not a valid tool">>) }

-----------------------------------------------------------------------------
(* Messages and the run state *)

HumanMessage(content) ==
    [role |-> "human", content |-> content, tool_calls |-> <<>>,
     name |-> "", tool_call_id |-> <<>>]

AIMessage(content, calls) ==
    [role |-> "ai", content |-> content, tool_calls |-> calls,
     name |-> "", tool_call_id |-> <<>>]

ToolMessage(content, name, id) ==
    [role |-> "tool", content |-> content, tool_calls |-> <<>>,
     name |-> name, tool_call_id |-> id]

\* a plain dict {"content": ...} in the place of a message object: it has no
\* attribute content
DictMessage(content) ==
    [role |-> "dict", content |-> content, tool_calls |-> <<>>,
     name |-> "", tool_call_id |-> <<>>]

\* the seed message built from the request
initial_prompt == <<"prompt">>

\* AgentState: messages with the operator.add reducer, a node's returned
\* messages are appended to the history
AgentState(msgs, update) == msgs \o update

-----------------------------------------------------------------------------
(* The language model: the responses the model can give at a turn *)

Call(name, args) == [name |-> name, args |-> args]

SearchCall == Call("search_and_summarize", <<"T">>)
SaveCall == Call("save_article", <<"a">>)
\* a file name that itself holds the marker phrase
SaveMarkCall == Call("save_article", <<"a", SP, MARK, SP, "b">>)
ImageCall == Call("save_image_with_compression", <<"i">>)
GenImageCall == Call("generate_image", <<"scene">>)
FinishCall == Call("finish", <<"Done">>)
FinishEmptyCall == Call("finish", <<>>)
UnknownCall == Call("publish", <<>>)

SingleCalls == {SearchCall, SaveCall, SaveMarkCall, ImageCall, GenImageCall,
                FinishCall, FinishEmptyCall, UnknownCall}

\* the calls a response with several tool calls is made of
BatchCalls == {ImageCall, FinishCall}

Batches == UNION { [1..n -> BatchCalls] : n \in 2..MaxBatch }

Reply(content, calls) == [raises |-> FALSE, content |-> content, calls |-> calls]
Raises == [raises |-> TRUE, content |-> <<>>, calls |-> <<>>]

FullResponses ==
    {Raises, Reply(<<>>, <<>>), Reply(<<"Text">>, <<>>)}
    \cup { Reply(<<>>, <<c>>) : c \in SingleCalls }
    \cup { Reply(<<>>, b) : b \in Batches }

\* a model that keeps requesting a non-finish tool, or stops with a text or
\* with the finish tool
TailResponses ==
    {Reply(<<>>, <<SearchCall>>), Reply(<<"Text">>, <<>>),
     Reply(<<>>, <<FinishCall>>)}

Responses(turn) == IF turn <= MaxTurns THEN FullResponses ELSE TailResponses

\* the tool calls of a response, each with its call id
WithIds(calls, turn) ==
    [k \in 1..Len(calls) |->
        [name |-> calls[k].name, args |-> calls[k].args, id |-> <<turn, k>>]]

-----------------------------------------------------------------------------
(* The graph: agent_graph.py *)

\* should_continue: "end" when the last message has no tool calls; reading
\* tool_calls of a message that is not an AIMessage raises AttributeError
\* a variant of should_continue that ends the run as soon as the model
\* requests finish, without running the tool
should_continue_DetectFirst(msgs) ==
    IF Last(msgs).role # "ai" THEN "AttributeError"
    ELSE IF Last(msgs).tool_calls = <<>> THEN "end"
    ELSE IF Last(msgs).tool_calls[1].name = "finish" THEN "end"
    ELSE "call_tool"

should_continue(msgs) ==
    IF Last(msgs).role # "ai" THEN "AttributeError"
    ELSE IF Last(msgs).tool_calls = <<>> THEN "end"
    ELSE "call_tool"

\* a variant of the except branch that returns a model message
call_model_except_ai(msgs) ==
    [raised |-> FALSE, error |-> <<>>,
     messages |-> <<AIMessage(<<"An error occurred while calling the model">>,
                              <<>>)>>]

\* a variant of the except branch that calls the model again and returns
\* what the second call answered
call_model_except_Retry(msgs) ==
    [raised |-> FALSE, error |-> <<>>,
     messages |-> <<AIMessage(<<>>, WithIds(<<SearchCall>>, 0))>>]

\* call_model, except branch: HumanMessage is not imported by agent_graph.py,
\* building the error message raises NameError out of the node
call_model_except(msgs) ==
    [raised |-> TRUE, error |-> <<"name 'HumanMessage' is not defined">>,
     messages |-> <<>>]

\* call_model: the update of the node, or the exception leaving it
call_model(msgs, resp, turn) ==
    IF resp.raises
    THEN call_model_except(msgs)
    ELSE [raised |-> FALSE, error |-> <<>>,
          messages |-> <<AIMessage(resp.content, WithIds(resp.calls, turn))>>]

\* ToolNode(tools) with its defaults: an unregistered name and an exception
\* of a tool are answered by an error message, a returned value by its text
ToolNodeMessage(call, result) ==
    IF call.name \notin tools
    THEN ToolMessage(<<"Error: ", call.name, " is not a valid tool, try one of ">>
                        \o tool_names,
                     call.name, call.id)
    ELSE IF result.kind = "throw"
    THEN ToolMessage(<<"Error: ">> \o result.output, call.name, call.id)
    ELSE IF result.key # ""
    THEN ToolMessage(<<"{", result.key, ": ">> \o result.output \o <<"}">>,
                     call.name, call.id)
    ELSE ToolMessage(result.output, call.name, call.id)

\* a variant of call_tool_with_logging that answers the first call only
call_tool_with_logging_First(msgs, results) ==
    LET calls == Last(msgs).tool_calls
    IN  [k \in 1..1 |-> ToolNodeMessage(calls[k], results[k])]

\* a variant of call_tool_with_logging that appends the results last call first
call_tool_with_logging_Reversed(msgs, results) ==
    LET calls == Last(msgs).tool_calls
        n == Len(calls)
    IN  [k \in 1..n |-> ToolNodeMessage(calls[n + 1 - k], results[n + 1 - k])]

\* call_tool_with_logging: one message per requested call, in request order
call_tool_with_logging(msgs, results) ==
    LET calls == Last(msgs).tool_calls
    IN  [k \in 1..Len(calls) |-> ToolNodeMessage(calls[k], results[k])]

\* after_tool_call: reads tool_calls[0] of messages[-2]; only an AIMessage
\* has tool_calls, on any other message the read raises AttributeError
after_tool_call(msgs) ==
    LET ai_message_with_tool_call == msgs[Len(msgs) - 1]
    IN  IF ai_message_with_tool_call.role # "ai"
        THEN "AttributeError"
        ELSE IF ai_message_with_tool_call.tool_calls[1].name = "finish"
        THEN "end"
        ELSE "continue"

\* the path map of the conditional edges of "agent"; an exception of the
\* node or of should_continue leaves the graph
agent_edges(branch) ==
    CASE branch = "call_tool" -> "action"
      [] branch = "end" -> "end"
      [] OTHER -> "raised"

\* a variant of action_edges that maps "continue" to the node itself
action_edges_Loop(branch) ==
    CASE branch = "continue" -> "action"
      [] branch = "end" -> "end"
      [] OTHER -> "raised"

\* the path map of the conditional edges of "action"; an exception of the
\* node or of after_tool_call leaves the graph
action_edges(branch) ==
    CASE branch = "continue" -> "agent"
      [] branch = "end" -> "end"
      [] OTHER -> "raised"

-----------------------------------------------------------------------------
(* Events of astream_events *)

\* a Python value: a str, None, a message object, a list of messages, or a
\* dict seen through the one key the code looks for
Val(t, text, msgs) == [t |-> t, key |-> "", text |-> text, messages |-> msgs]
StrVal(text) == Val("str", text, <<>>)
NoneVal == Val("none", <<>>, <<>>)
DictVal(key, text) == [t |-> "dict", key |-> key, text |-> text, messages |-> <<>>]
StateVal(msgs) == [t |-> "dict", key |-> "messages", text |-> <<>>, messages |-> msgs]

Event(event, name, output) == [event |-> event, name |-> name, output |-> output]

on_tool_end(name, out) == Event("on_tool_end", name, StrVal(out))
\* data["output"] of on_tool_end: the value the tool returned
OutputVal(result) ==
    IF result.key = "" THEN StrVal(result.output)
    ELSE DictVal(result.key, result.output)
on_graph_end(msgs) == Event("on_graph_end", "LangGraph", StateVal(msgs))
\* an exception leaving the graph ends the stream and is raised in the route
exception(text) == Event("exception", "", StrVal(text))

\* the orders in which the invocations of a batch can complete
Perms(n) == { p \in [1..n -> 1..n] : \A i, j \in 1..n : i # j => p[i] # p[j] }

RECURSIVE ToolEvents(_, _, _)
\* on_tool_end events of the registered calls that returned, in completion order
ToolEvents(calls, results, order) ==
    IF order = <<>> THEN <<>>
    ELSE LET k == Head(order)
             rest == ToolEvents(calls, results, Tail(order))
         IN  IF calls[k].name \in tools /\ results[k].kind = "return"
             THEN <<Event("on_tool_end", calls[k].name, OutputVal(results[k]))>>
                    \o rest
             ELSE rest

RecursionErrorText == <<"Recursion limit reached">>
AttributeErrorText == <<"'ToolMessage' object has no attribute 'tool_calls'">>

-----------------------------------------------------------------------------
(* The route: create_article of writing.py, after the stream has ended *)

\* truth value of a Python value
Truthy(v) ==
    CASE v.t = "none" -> FALSE
      [] v.t = "str" -> v.text # <<>>
      [] v.t = "list" -> v.messages # <<>>
      [] OTHER -> TRUE

NoFinalStateText ==
    <<"Agent execution did not produce a valid final state and did not call 'finish'.">>
NoSummaryText == <<"Could not determine final summary from agent output.">>
TypeErrorText == <<"argument of type is not iterable">>
DictAttributeErrorText == <<"'dict' object has no attribute 'content'">>

\* AgentExecutionError(message, details=...)
AgentExecutionError(message, details) == [message |-> message, details |-> details]

\* str(e) of a BaseError: the message it passed to Exception.__init__
str(e) == e.message

NoOutputs == [n \in tools |-> <<>>]

\* a variant of FinalSummary without the fallback to the last message
FinalSummary_NoFallback(fs, outs) ==
    IF outs["finish"] # <<>> /\ outs["finish"][1].t \in {"str", "msg"}
    THEN outs["finish"][1].text
    ELSE <<>>

\* a variant of FinalSummary that looks at the last message first
FinalSummary_LastFirst(fs, outs) ==
    IF Truthy(fs) /\ fs.messages # <<>> /\ Last(fs.messages).content # <<>>
       /\ Last(fs.messages).tool_calls = <<>>
    THEN Last(fs.messages).content
    ELSE IF outs["finish"] # <<>> /\ outs["finish"][1].t \in {"str", "msg"}
    THEN outs["finish"][1].text
    ELSE <<>>

\* a variant of FinalSummary that falls back to the last message when the
\* finish output is empty
FinalSummary_FallbackOnEmpty(fs, outs) ==
    IF outs["finish"] # <<>> /\ outs["finish"][1].t \in {"str", "msg"}
       /\ outs["finish"][1].text # <<>>
    THEN outs["finish"][1].text
    ELSE IF Truthy(fs)
    THEN LET msgs == fs.messages
         IN  IF msgs # <<>> /\ Last(msgs).content # <<>>
                /\ Last(msgs).tool_calls = <<>>
             THEN Last(msgs).content
             ELSE <<>>
    ELSE <<>>

\* lines 58-65: the first finish output, else the content of the last message
FinalSummary(fs, outs) ==
    IF outs["finish"] # <<>>
    THEN LET finish_output == outs["finish"][1]
         IN  IF finish_output.t \in {"str", "msg"} THEN finish_output.text
             ELSE <<>>
    ELSE IF Truthy(fs)
    THEN LET msgs == fs.messages
         IN  IF msgs # <<>> /\ Last(msgs).content # <<>>
                /\ Last(msgs).tool_calls = <<>>
             THEN Last(msgs).content
             ELSE <<>>
    ELSE <<>>

\* line 64: messages[-1].content of a last message that is a plain dict
\* raises AttributeError
SummaryRaises(fs, outs) ==
    /\ outs["finish"] = <<>>
    /\ Truthy(fs)
    /\ fs.messages # <<>>
    /\ Last(fs.messages).role = "dict"

\* file_paths[key] = value
DictSet(d, key, value) ==
    [k \in (DOMAIN d) \cup {key} |-> IF k = key THEN value ELSE d[k]]

\* lines 73-75 for one output
AddPath(file_paths, output) ==
    IF output.t = "str" /\ Contains(output.text, MARK)
    THEN LET path_str == Strip(SplitSecond(output.text, MARK))
         IN  DictSet(file_paths, PathName(path_str), path_str)
    ELSE file_paths

RECURSIVE ScanOutputs(_, _)
ScanOutputs(file_paths, outputs) ==
    IF outputs = <<>> THEN file_paths
    ELSE ScanOutputs(AddPath(file_paths, Head(outputs)), Tail(outputs))

\* lines 69-75: the outputs of the file-producing tools, tool by tool
FilePaths(outs) ==
    ScanOutputs(ScanOutputs(<<>>, outs["save_article"]),
                outs["save_image_with_compression"])

\* "marker in output" raises TypeError for an output that is no container
ScanRaises(outs) ==
    \E n \in {"save_article", "save_image_with_compression"} :
        \E i \in 1..Len(outs[n]) : outs[n][i].t \in {"none", "msg"}

\* WriteResponse: metadata is {"topic": ...} of a completed response and the
\* default {} of a failed one
WriteResponse(status, has_content, content, error, file_paths) ==
    [status |-> status, has_content |-> has_content, content |-> content,
     error |-> error, file_paths |-> file_paths,
     metadata |-> IF status = "completed" THEN <<"topic">> ELSE <<>>]

\* a variant of Failed that leaves the error text out
Failed_Silent(error) == WriteResponse("failed", FALSE, <<>>, <<>>, <<>>)

\* lines 82-86: any exception becomes a failed response
Failed(error) == WriteResponse("failed", FALSE, <<>>, error, <<>>)

\* a variant of create_article without the check of lines 67-68
create_article_NoCheck(fs, outs) ==
    IF ~Truthy(fs) /\ outs["finish"] = <<>>
    THEN Failed(str(AgentExecutionError(NoFinalStateText, <<>>)))
    ELSE IF SummaryRaises(fs, outs) THEN Failed(DictAttributeErrorText)
    ELSE IF ScanRaises(outs) THEN Failed(TypeErrorText)
    ELSE WriteResponse("completed", TRUE, FinalSummary(fs, outs), <<>>,
                       FilePaths(outs))

\* a variant of create_article whose failure for want of a final summary
\* reports the files found so far
create_article_KeepPaths(fs, outs) ==
    IF ~Truthy(fs) /\ outs["finish"] = <<>>
    THEN Failed(str(AgentExecutionError(NoFinalStateText, <<>>)))
    ELSE IF SummaryRaises(fs, outs) THEN Failed(DictAttributeErrorText)
    ELSE IF FinalSummary(fs, outs) = <<>>
    THEN WriteResponse("failed", FALSE, <<>>, NoSummaryText, FilePaths(outs))
    ELSE IF ScanRaises(outs) THEN Failed(TypeErrorText)
    ELSE WriteResponse("completed", TRUE, FinalSummary(fs, outs), <<>>,
                       FilePaths(outs))

\* lines 55-81
create_article(fs, outs) ==
    IF ~Truthy(fs) /\ outs["finish"] = <<>>
    THEN Failed(str(AgentExecutionError(NoFinalStateText, <<>>)))
    ELSE IF SummaryRaises(fs, outs) THEN Failed(DictAttributeErrorText)
    ELSE IF FinalSummary(fs, outs) = <<>>
    THEN Failed(str(AgentExecutionError(NoSummaryText,
                        [final_state |-> fs, tool_outputs |-> outs])))
    ELSE IF ScanRaises(outs) THEN Failed(TypeErrorText)
    ELSE WriteResponse("completed", TRUE, FinalSummary(fs, outs), <<>>,
                       FilePaths(outs))

-----------------------------------------------------------------------------
(* Actions of a run *)

Init ==
    /\ node = "agent"
    /\ messages = <<HumanMessage(initial_prompt)>>
    /\ step = 0
    /\ turns = 0
    /\ toolSteps = 0
    /\ modelFailed = FALSE
    /\ invoked = <<>>
    /\ stream = <<>>
    /\ final_state = NoneVal
    /\ tool_outputs = NoOutputs
    /\ consumed = <<>>
    /\ rpc = "stream"
    /\ outcomes = <<>>
    /\ runs = <<>>
    /\ registry = tool_names
    /\ fan = [phase |-> "idle"]

\* the "agent" node and its conditional edge
AgentNode ==
    /\ node = "agent"
    /\ Len(stream) < MaxBuffered
    /\ step < RecursionLimit
    /\ \E resp \in Responses(turns + 1) :
        LET r == call_model(messages, resp, turns + 1)
            msgs == AgentState(messages, r.messages)
            branch == IF r.raised THEN "raised" ELSE should_continue(msgs)
        IN  /\ modelFailed' = (modelFailed \/ resp.raises)
            /\ messages' = IF r.raised THEN messages ELSE msgs
            /\ node' = agent_edges(branch)
            /\ stream' = CASE branch = "call_tool" -> stream
                           [] branch = "end" -> Append(stream, on_graph_end(msgs))
                           [] branch = "raised" -> Append(stream, exception(r.error))
                           [] OTHER -> Append(stream, exception(AttributeErrorText))
    /\ step' = step + 1
    /\ turns' = turns + 1
    /\ UNCHANGED <<toolSteps, invoked, routeVars, sideVars>>

\* the "action" node and its conditional edge
ActionNode ==
    /\ node = "action"
    /\ Len(stream) < MaxBuffered
    /\ step < RecursionLimit
    /\ LET calls == Last(messages).tool_calls
           n == Len(calls)
       IN  \E results \in [1..n -> UNION { ToolResults(calls[k]) : k \in 1..n }] :
           \E order \in Perms(n) :
             /\ \A k \in 1..n : results[k] \in ToolResults(calls[k])
             /\ LET msgs == AgentState(messages,
                                       call_tool_with_logging(messages, results))
                    branch == after_tool_call(msgs)
                    events == ToolEvents(calls, results, order)
                IN  /\ messages' = msgs
                    /\ invoked' = invoked \o
                          [i \in 1..n |-> [call |-> calls[i],
                                           result |-> results[i]]]
                    /\ node' = action_edges(branch)
                    /\ stream' = CASE branch = "continue" -> stream \o events
                                   [] branch = "end" ->
                                        stream \o events \o <<on_graph_end(msgs)>>
                                   [] OTHER ->
                                        stream \o events
                                          \o <<exception(AttributeErrorText)>>
    /\ step' = step + 1
    /\ toolSteps' = toolSteps + 1
    /\ UNCHANGED <<turns, modelFailed, routeVars, sideVars>>

\* the graph has run RecursionLimit supersteps and has a node left to run
GraphRecursionError ==
    /\ node \in {"agent", "action"}
    /\ Len(stream) < MaxBuffered
    /\ step = RecursionLimit
    /\ node' = "raised"
    /\ stream' = Append(stream, exception(RecursionErrorText))
    /\ UNCHANGED <<messages, step, turns, toolSteps, modelFailed, invoked,
                   routeVars, sideVars>>

\* lines 48-53: one event of the stream
RouteEvent ==
    /\ rpc = "stream"
    /\ stream # <<>>
    /\ Head(stream).event # "exception"
    /\ LET event == Head(stream)
       IN  /\ tool_outputs' =
                 IF event.event = "on_tool_end"
                 THEN [tool_outputs EXCEPT ![event.name] = Append(@, event.output)]
                 ELSE tool_outputs
           /\ final_state' =
                 IF event.event = "on_graph_end" THEN event.output
                 ELSE final_state
           /\ consumed' = Append(consumed, event)
    /\ stream' = Tail(stream)
    /\ UNCHANGED <<sideVars, graphVars, rpc, outcomes>>

\* a variant of RouteException without the except clause: no response
RouteException_Propagates ==
    /\ rpc = "stream"
    /\ stream # <<>>
    /\ Head(stream).event = "exception"
    /\ rpc' = "raised"
    /\ stream' = Tail(stream)
    /\ UNCHANGED <<sideVars, graphVars, final_state, tool_outputs, consumed, outcomes>>

\* the stream raises: lines 82-86
RouteException ==
    /\ rpc = "stream"
    /\ stream # <<>>
    /\ Head(stream).event = "exception"
    /\ outcomes' = Append(outcomes, Failed(Head(stream).output.text))
    /\ rpc' = "raised"
    /\ stream' = Tail(stream)
    /\ UNCHANGED <<sideVars, graphVars, final_state, tool_outputs, consumed>>

\* the stream has ended: lines 55-86
RouteReturn ==
    /\ rpc = "stream"
    /\ stream = <<>>
    /\ node \in {"end", "mock"}
    /\ outcomes' = Append(outcomes, create_article(final_state, tool_outputs))
    /\ rpc' = "done"
    /\ UNCHANGED <<sideVars, graphVars, stream, final_state, tool_outputs, consumed>>

Next ==
    \/ AgentNode
    \/ ActionNode
    \/ GraphRecursionError
    \/ RouteEvent
    \/ RouteException
    \/ RouteReturn

Spec == Init /\ [][Next]_vars

\* the route returns: the step of RouteReturn, seen through the route's position
Returns ==
    /\ rpc = "stream"
    /\ stream = <<>>
    /\ node \in {"end", "mock"}
    /\ rpc' = "done"

\* every step that can be taken is eventually taken: the event loop runs the
\* graph task and the route, and a model or tool call returns or raises
SpecLive ==
    /\ Spec
    /\ WF_vars(AgentNode \/ ActionNode \/ GraphRecursionError)
    /\ WF_vars(RouteEvent \/ RouteException)
    /\ WF_rpc(Returns)

-----------------------------------------------------------------------------
(* The route over a substituted event stream, as the integration test       *)
(* substitutes agent_graph.astream_events                                   *)

SeedMessage == HumanMessage(initial_prompt)

MockStates ==
    { <<SeedMessage, AIMessage(<<"Text">>, <<>>)>>,
      <<SeedMessage, AIMessage(<<>>, <<>>)>>,
      <<SeedMessage, AIMessage(<<"Text">>, WithIds(<<SearchCall>>, 1))>>,
      <<SeedMessage, AIMessage(<<>>, WithIds(<<SearchCall>>, 1)),
        ToolMessage(<<"Summary of Findings">>, "search_and_summarize", <<1, 1>>)>>,
      <<SeedMessage>>,
      <<DictMessage(<<"Final summary of the article.">>)>> }

MockEvents ==
    { on_tool_end("finish", <<"Done">>),
      on_tool_end("finish", <<"Other">>),
      on_tool_end("finish", <<>>),
      on_tool_end("save_article",
                  <<"Article", SP, MARK, SP>> \o MdPath(MdDir, <<"a">>)),
      on_tool_end("save_article", SaveErrorText),
      exception(<<"stream failed">>) }
    \cup { on_graph_end(m) : m \in MockStates }

MockStreams == UNION { [1..n -> MockEvents] : n \in 0..MaxEvents }

InitRoute ==
    /\ node = "mock"
    /\ messages = <<>>
    /\ step = 0
    /\ turns = 0
    /\ toolSteps = 0
    /\ modelFailed = FALSE
    /\ invoked = <<>>
    /\ stream \in MockStreams
    /\ final_state = NoneVal
    /\ tool_outputs = NoOutputs
    /\ consumed = <<>>
    /\ rpc = "stream"
    /\ outcomes = <<>>
    /\ runs = <<>>
    /\ registry = tool_names
    /\ fan = [phase |-> "idle"]

NextRoute ==
    \/ RouteEvent
    \/ RouteException
    \/ RouteReturn

SpecRoute == InitRoute /\ [][NextRoute]_vars

-----------------------------------------------------------------------------
(* Two concurrent requests of /write: each call of create_article has its   *)
(* own inputs, final_state and tool_outputs, and each astream_events call   *)
(* its own graph state; tools, tool_node, model and agent_graph are made    *)
(* once, when agent_graph.py is loaded                                      *)

mainVars == <<graphVars, stream, routeVars>>

Requests == {1, 2}

\* article_id = str(uuid.uuid4()) of the request
article_id(r) == IF r = 1 THEN "id1" ELSE "id2"

\* the seed message names the article id of the request
PromptOf(r) == <<"prompt", article_id(r)>>

SaveCallOf(r) == Call("save_article", <<article_id(r), "_main">>)
FinishCallOf(r) == Call("finish", <<"Done", article_id(r)>>)

\* the responses of the model to the history of request r
ResponsesOf(r, turn) ==
    IF turn < MaxTurns
    THEN {Raises, Reply(<<"Text", article_id(r)>>, <<>>),
          Reply(<<>>, <<SaveCallOf(r)>>), Reply(<<>>, <<FinishCallOf(r)>>)}
    ELSE {Reply(<<"Text", article_id(r)>>, <<>>), Reply(<<>>, <<FinishCallOf(r)>>)}

\* the state of one request: the graph run and the locals of the route
RunInit(r) ==
    [node |-> "agent", messages |-> <<HumanMessage(PromptOf(r))>>,
     step |-> 0, turns |-> 0, stream |-> <<>>, final_state |-> NoneVal,
     tool_outputs |-> NoOutputs, rpc |-> "stream", outcomes |-> <<>>]

\* the "agent" node and its conditional edge, on the state of one request
AgentStep(s, resp) ==
    LET r == call_model(s.messages, resp, s.turns + 1)
        msgs == AgentState(s.messages, r.messages)
        branch == IF r.raised THEN "raised" ELSE should_continue(msgs)
    IN  [s EXCEPT
           !.messages = IF r.raised THEN @ ELSE msgs,
           !.node = agent_edges(branch),
           !.stream = CASE branch = "call_tool" -> @
                        [] branch = "end" -> Append(@, on_graph_end(msgs))
                        [] branch = "raised" -> Append(@, exception(r.error))
                        [] OTHER -> Append(@, exception(AttributeErrorText)),
           !.step = @ + 1,
           !.turns = @ + 1]

\* the "action" node and its conditional edge, on the state of one request
ActionStep(s, results, order) ==
    LET calls == Last(s.messages).tool_calls
        msgs == AgentState(s.messages, call_tool_with_logging(s.messages, results))
        branch == after_tool_call(msgs)
        events == ToolEvents(calls, results, order)
    IN  [s EXCEPT
           !.messages = msgs,
           !.node = action_edges(branch),
           !.stream = CASE branch = "continue" -> @ \o events
                        [] branch = "end" -> @ \o events \o <<on_graph_end(msgs)>>
                        [] OTHER -> @ \o events \o <<exception(AttributeErrorText)>>,
           !.step = @ + 1]

\* a variant of Collect with one tool_outputs dict for all requests
Collect_Shared(rs, r, event) ==
    [q \in DOMAIN rs |->
        [rs[q] EXCEPT !.tool_outputs[event.name] = Append(@, event.output)]]

\* lines 49-51: the output goes to the tool_outputs of the request
Collect(rs, r, event) ==
    [rs EXCEPT ![r].tool_outputs[event.name] = Append(@, event.output)]

InitTwo ==
    /\ node = "idle"
    /\ messages = <<>>
    /\ step = 0
    /\ turns = 0
    /\ toolSteps = 0
    /\ modelFailed = FALSE
    /\ invoked = <<>>
    /\ stream = <<>>
    /\ final_state = NoneVal
    /\ tool_outputs = NoOutputs
    /\ consumed = <<>>
    /\ rpc = "idle"
    /\ outcomes = <<>>
    /\ runs = [r \in Requests |-> RunInit(r)]
    /\ registry = tool_names
    /\ fan = [phase |-> "idle"]

RunAgent(r) ==
    /\ runs[r].node = "agent"
    /\ Len(runs[r].stream) < MaxBuffered
    /\ runs[r].step < RecursionLimit
    /\ \E resp \in ResponsesOf(r, runs[r].turns + 1) :
         runs' = [runs EXCEPT ![r] = AgentStep(@, resp)]
    /\ UNCHANGED <<mainVars, registry, fan>>

RunAction(r) ==
    /\ runs[r].node = "action"
    /\ Len(runs[r].stream) < MaxBuffered
    /\ runs[r].step < RecursionLimit
    /\ LET calls == Last(runs[r].messages).tool_calls
           n == Len(calls)
       IN  \E results \in [1..n -> UNION { ToolResults(calls[k]) : k \in 1..n }] :
           \E order \in Perms(n) :
             /\ \A k \in 1..n : results[k] \in ToolResults(calls[k])
             /\ runs' = [runs EXCEPT ![r] = ActionStep(@, results, order)]
    /\ UNCHANGED <<mainVars, registry, fan>>

\* lines 48-53 in request r
RunRouteEvent(r) ==
    /\ runs[r].rpc = "stream"
    /\ runs[r].stream # <<>>
    /\ Head(runs[r].stream).event # "exception"
    /\ LET event == Head(runs[r].stream)
           collected == IF event.event = "on_tool_end"
                        THEN Collect(runs, r, event)
                        ELSE runs
       IN  runs' = [collected EXCEPT
                      ![r].final_state =
                          IF event.event = "on_graph_end" THEN event.output ELSE @,
                      ![r].stream = Tail(@)]
    /\ UNCHANGED <<mainVars, registry, fan>>

\* lines 82-86 in request r
RunRouteException(r) ==
    /\ runs[r].rpc = "stream"
    /\ runs[r].stream # <<>>
    /\ Head(runs[r].stream).event = "exception"
    /\ runs' = [runs EXCEPT
                  ![r].outcomes = Append(@, Failed(Head(runs[r].stream).output.text)),
                  ![r].rpc = "raised",
                  ![r].stream = Tail(@)]
    /\ UNCHANGED <<mainVars, registry, fan>>

\* lines 55-86 in request r
RunRouteReturn(r) ==
    /\ runs[r].rpc = "stream"
    /\ runs[r].stream = <<>>
    /\ runs[r].node = "end"
    /\ runs' = [runs EXCEPT
                  ![r].outcomes =
                      Append(@, create_article(runs[r].final_state,
                                               runs[r].tool_outputs)),
                  ![r].rpc = "done"]
    /\ UNCHANGED <<mainVars, registry, fan>>

NextTwo ==
    \E r \in Requests :
        \/ RunAgent(r)
        \/ RunAction(r)
        \/ RunRouteEvent(r)
        \/ RunRouteException(r)
        \/ RunRouteReturn(r)

SpecTwo == InitTwo /\ [][NextTwo]_vars

-----------------------------------------------------------------------------
(* The fan-out routes: translate_existing_article and                       *)
(* images_existing_article of writing.py                                    *)

Languages == {"fr", "de"}

\* target_languages (at least one), number_of_images (greater than 0)
FanInputs(route) ==
    IF route = "translate"
    THEN UNION { [1..n -> Languages] : n \in 1..MaxBranches }
    ELSE { [i \in 1..n |-> "image"] : n \in 1..MaxBranches }

Pending == [kind |-> "pending", key |-> "", output |-> <<>>]

\* the uuid4 drawn by the invocation of branch i
UuidOf(i) == <<"u1", "u2", "u3", "u4">>[i]

HTTPException(status_code) ==
    [kind |-> "HTTPException", status_code |-> status_code, status |-> "",
     file_paths |-> <<>>]

\* WriteResponse(status="completed", file_paths=file_paths, ...)
FanResponse(file_paths) ==
    [kind |-> "WriteResponse", status_code |-> 200, status |-> "completed",
     file_paths |-> file_paths]

TransDir == <<"output", SL, "trans_exist">>

\* f"{source_path.stem}_{lang}"
TransFilename(lang) == <<"stem", "_", lang>>

\* the outcome of the invocation of one branch
BranchResults(route, input, i) ==
    IF route = "translate" THEN translate_text(<<"content">>, input)
    ELSE generate_image(<<"scene">>, UuidOf(i))

\* lines 140-147 for one result
AddImage(file_paths, result) ==
    IF result.key = "file_path"
    THEN DictSet(file_paths, PathName(result.output), result.output)
    ELSE file_paths

RECURSIVE ScanImages(_, _)
ScanImages(file_paths, results) ==
    IF results = <<>> THEN file_paths
    ELSE ScanImages(AddImage(file_paths, Head(results)), Tail(results))

\* asyncio.gather raises what a branch raises
Raised(results) == \E i \in 1..Len(results) : results[i].kind = "throw"
Joined(results) == \A i \in 1..Len(results) : results[i].kind # "pending"

InitFan ==
    /\ node = "idle"
    /\ messages = <<>>
    /\ step = 0
    /\ turns = 0
    /\ toolSteps = 0
    /\ modelFailed = FALSE
    /\ invoked = <<>>
    /\ stream = <<>>
    /\ final_state = NoneVal
    /\ tool_outputs = NoOutputs
    /\ consumed = <<>>
    /\ rpc = "idle"
    /\ outcomes = <<>>
    /\ runs = <<>>
    /\ registry = tool_names
    /\ \E route \in {"translate", "images"} : \E inputs \in FanInputs(route) :
       \E is_file \in BOOLEAN :
         fan = [phase |-> "start", route |-> route, inputs |-> inputs,
                is_file |-> is_file,
                results |-> [i \in 1..Len(inputs) |-> Pending],
                saved |-> <<>>, logged |-> {}, response |-> HTTPException(0)]

\* lines 93-101 and 126-134: the source file is looked up
FanStart ==
    /\ fan.phase = "start"
    /\ fan' = IF fan.is_file
              THEN [fan EXCEPT !.phase = "gather"]
              ELSE [fan EXCEPT !.phase = "done", !.response = HTTPException(404)]
    /\ UNCHANGED <<mainVars, runs, registry>>

\* one of the invocations handed to asyncio.gather comes to its end; a tool
\* logs the failure it returns
FanBranch ==
    /\ fan.phase = "gather"
    /\ ~Raised(fan.results)
    /\ \E i \in 1..Len(fan.inputs) :
         /\ fan.results[i].kind = "pending"
         /\ \E res \in BranchResults(fan.route, fan.inputs[i], i) :
              fan' = [fan EXCEPT
                        !.results[i] = res,
                        !.logged = IF res.kind = "return"
                                      /\ (res.key = "error"
                                          \/ res.output = TranslationErrorText)
                                   THEN @ \cup {i} ELSE @]
    /\ UNCHANGED <<mainVars, runs, registry>>

\* asyncio.gather returns or raises, and the rest of the handler runs:
\* lines 105-119 and 138-155
FanJoin ==
    /\ fan.phase = "gather"
    /\ Joined(fan.results) \/ Raised(fan.results)
    /\ LET n == Len(fan.inputs)
       IN  IF Raised(fan.results)
           THEN fan' = [fan EXCEPT !.phase = "done",
                                   !.response = HTTPException(500)]
           ELSE IF fan.route = "translate"
           THEN \E saves \in [1..n -> UNION { save_article(TransFilename(fan.inputs[i]),
                                                            TransDir) : i \in 1..n }] :
                  /\ \A i \in 1..n :
                       saves[i] \in save_article(TransFilename(fan.inputs[i]), TransDir)
                  /\ fan' = [fan EXCEPT
                       !.phase = "done",
                       !.saved = saves,
                       !.response = FanResponse(
                           ScanOutputs(<<>>, [i \in 1..n |-> StrVal(saves[i].output)]))]
           ELSE fan' = [fan EXCEPT
                          !.phase = "done",
                          !.response = FanResponse(ScanImages(<<>>, fan.results))]
    /\ UNCHANGED <<mainVars, runs, registry>>

NextFan ==
    \/ FanStart
    \/ FanBranch
    \/ FanJoin

SpecFan == InitFan /\ [][NextFan]_vars

-----------------------------------------------------------------------------
(* /write/from-existing: the agent phase, then the translation phase *)

ExistDir == <<"output", SL, "write_exist">>
ExistTransDir == <<"output", SL, "write_exist_trans">>

\* f"{main_article_path.stem}_{lang}"
ExistFilename(lang) == <<"id_main", "_", lang>>

\* request.translate_to: a list of languages, possibly empty
TranslateTo == UNION { [1..n -> Languages] : n \in 0..MaxBranches }

\* the events the agent's stream is drawn from
ExistingEvents ==
    { on_tool_end("finish", <<"Done">>),
      on_tool_end("finish", <<>>),
      on_tool_end("save_article",
                  <<"Article", SP, MARK, SP>> \o MdPath(ExistDir, <<"id_main">>)),
      exception(<<"stream failed">>),
      on_graph_end(<<SeedMessage, AIMessage(<<"Text">>, <<>>)>>),
      on_graph_end(<<SeedMessage, AIMessage(<<>>, <<>>)>>) }

ExistingStreams == UNION { [1..n -> ExistingEvents] : n \in 0..MaxEvents }

\* WriteResponse(status="completed", content=final_summary,
\*               metadata={"style": ..., "language": ...}, file_paths=...)
ExistingResponse(content, file_paths) ==
    [WriteResponse("completed", TRUE, content, <<>>, file_paths)
        EXCEPT !.metadata = <<"style", "language">>]

\* a variant of write_from_existing without the check of lines 263-264
write_from_existing_NoCheck(fs, outs) ==
    IF ~Truthy(fs) /\ outs["finish"] = <<>>
    THEN Failed(str(AgentExecutionError(NoFinalStateText, <<>>)))
    ELSE IF SummaryRaises(fs, outs) THEN Failed(DictAttributeErrorText)
    ELSE ExistingResponse(FinalSummary(fs, outs),
                          ScanOutputs(<<>>, outs["save_article"]))

\* lines 251-270: the outcome of the agent phase, a failure or the summary
\* and the files of save_article
write_from_existing(fs, outs) ==
    IF ~Truthy(fs) /\ outs["finish"] = <<>>
    THEN Failed(str(AgentExecutionError(NoFinalStateText, <<>>)))
    ELSE IF SummaryRaises(fs, outs) THEN Failed(DictAttributeErrorText)
    ELSE IF FinalSummary(fs, outs) = <<>>
    THEN Failed(str(AgentExecutionError(NoSummaryText,
                        [final_state |-> fs, tool_outputs |-> outs])))
    ELSE IF \E i \in 1..Len(outs["save_article"]) :
                outs["save_article"][i].t \in {"none", "msg"}
    THEN Failed(TypeErrorText)
    ELSE ExistingResponse(FinalSummary(fs, outs),
                          ScanOutputs(<<>>, outs["save_article"]))

InitExisting ==
    /\ node = "mock"
    /\ messages = <<>>
    /\ step = 0
    /\ turns = 0
    /\ toolSteps = 0
    /\ modelFailed = FALSE
    /\ invoked = <<>>
    /\ stream = <<>>
    /\ final_state = NoneVal
    /\ tool_outputs = NoOutputs
    /\ consumed = <<>>
    /\ rpc = "idle"
    /\ outcomes = <<>>
    /\ runs = <<>>
    /\ registry = tool_names
    /\ \E translate_to \in TranslateTo : \E exists \in BOOLEAN :
         fan = [phase |-> "start", route |-> "existing", inputs |-> translate_to,
                exists |-> exists, is_file |-> FALSE,
                results |-> [i \in 1..Len(translate_to) |-> Pending],
                saved |-> <<>>, logged |-> {}, response |-> HTTPException(0)]

\* lines 220-249: without the data file the request ends with 404; with it
\* the agent is started on the prompt and its events are consumed
ExistingStart ==
    /\ fan.phase = "start"
    /\ IF fan.exists
       THEN /\ fan' = [fan EXCEPT !.phase = "agent"]
            /\ stream' \in ExistingStreams
            /\ rpc' = "stream"
       ELSE /\ fan' = [fan EXCEPT !.phase = "done",
                                  !.response = HTTPException(404)]
            /\ rpc' = "raised"
            /\ UNCHANGED stream
    /\ UNCHANGED <<graphVars, final_state, tool_outputs, consumed, outcomes,
                   runs, registry>>

\* lines 251-279 and 297-305: the stream has ended; a failure of the
\* extraction is returned, and so is the summary when no translation is
\* requested or the main article is not on disk; else the file is read
ExistingAgentEnd ==
    /\ fan.phase = "agent"
    /\ rpc = "stream"
    /\ stream = <<>>
    /\ \E is_file \in BOOLEAN :
        LET r == write_from_existing(final_state, tool_outputs)
        IN  IF r.status = "completed" /\ fan.inputs # <<>> /\ is_file
            THEN /\ fan' = [fan EXCEPT !.phase = "gather", !.is_file = is_file,
                                       !.response = r]
                 /\ rpc' = "translate"
                 /\ UNCHANGED outcomes
            ELSE /\ fan' = [fan EXCEPT !.phase = "done", !.is_file = is_file,
                                       !.response = r]
                 /\ rpc' = "done"
                 /\ outcomes' = Append(outcomes, r)
    /\ UNCHANGED <<graphVars, stream, final_state, tool_outputs, consumed,
                   runs, registry>>

\* lines 281-283: one of the translations handed to asyncio.gather ends
ExistingBranch ==
    /\ fan.phase = "gather"
    /\ \E i \in 1..Len(fan.inputs) :
         /\ fan.results[i].kind = "pending"
         /\ \E res \in translate_text(<<"content">>, fan.inputs[i]) :
              fan' = [fan EXCEPT
                        !.results[i] = res,
                        !.logged = IF res.output = TranslationErrorText
                                   THEN @ \cup {i} ELSE @]
    /\ UNCHANGED <<mainVars, runs, registry>>

\* lines 285-305: every translation has ended; each is saved in turn and
\* the completed response holds the files of both phases
ExistingJoin ==
    /\ fan.phase = "gather"
    /\ Joined(fan.results)
    /\ LET n == Len(fan.inputs)
       IN  \E saves \in [1..n -> UNION { save_article(ExistFilename(fan.inputs[i]),
                                                       ExistTransDir) : i \in 1..n }] :
             /\ \A i \in 1..n :
                  saves[i] \in save_article(ExistFilename(fan.inputs[i]),
                                            ExistTransDir)
             /\ LET r == ExistingResponse(
                            fan.response.content,
                            ScanOutputs(fan.response.file_paths,
                                        [i \in 1..n |-> StrVal(saves[i].output)]))
                IN  /\ fan' = [fan EXCEPT !.phase = "done", !.saved = saves,
                                          !.response = r]
                    /\ outcomes' = Append(outcomes, r)
    /\ rpc' = "done"
    /\ UNCHANGED <<graphVars, stream, final_state, tool_outputs, consumed,
                   runs, registry>>

\* lines 306-310: the stream raises and the failure is returned
ExistingException ==
    /\ fan.phase = "agent"
    /\ rpc = "stream"
    /\ stream # <<>>
    /\ Head(stream).event = "exception"
    /\ outcomes' = Append(outcomes, Failed(Head(stream).output.text))
    /\ rpc' = "raised"
    /\ stream' = Tail(stream)
    /\ fan' = [fan EXCEPT !.phase = "done"]
    /\ UNCHANGED <<graphVars, final_state, tool_outputs, consumed, runs,
                   registry>>

NextExisting ==
    \/ ExistingStart
    \/ RouteEvent
    \/ ExistingException
    \/ ExistingAgentEnd
    \/ ExistingBranch
    \/ ExistingJoin

SpecExisting == InitExisting /\ [][NextExisting]_vars

-----------------------------------------------------------------------------
(* Properties *)

Ended == rpc # "stream"

\* the first response of the model has no tool calls
FirstResponsePlain ==
    /\ Len(messages) >= 2
    /\ messages[2].role = "ai"
    /\ messages[2].tool_calls = <<>>

\* C1: every run of the graph started by an agent route eventually produces
\* a terminal outcome, and never more than one, whatever the model and the
\* tools do (a model that never stops requesting tools, a failing call)
C1_ExactlyOneOutcome ==
    /\ [](Len(outcomes) <= 1)
    /\ <>[](Ended /\ Len(outcomes) = 1)

\* a model that requested a non-finish tool at every turn, cut off, answered
C1_Witness ==
    /\ Ended
    /\ Len(outcomes) = 1
    /\ step = RecursionLimit
    /\ Last(messages).tool_calls # <<>>

\* C2: when finish is invoked with a non-empty final_summary X, the outcome
\* of the run carries X as its final summary, whatever preceded the
\* invocation, and no model message follows the result of finish
C2_FinishSummary ==
    \A i \in 1..Len(invoked) :
        (invoked[i].call.name = "finish" /\ invoked[i].call.args # <<>>)
        => /\ \A j \in 1..Len(outcomes) :
                /\ outcomes[j].has_content
                /\ outcomes[j].content = invoked[i].call.args
           /\ \A p, q \in 1..Len(messages) :
                (p < q /\ messages[p].role = "tool" /\ messages[p].name = "finish")
                => messages[q].role # "ai"

\* C3 as stated: a first response without tool calls ends the run after one
\* Model Step and no Tool Step, and the outcome's final summary is its content
C3_FirstPlainIsSummary ==
    FirstResponsePlain
    => /\ turns = 1
       /\ toolSteps = 0
       /\ node = "end"
       /\ \A j \in 1..Len(outcomes) :
            /\ outcomes[j].has_content
            /\ outcomes[j].content = messages[2].content

\* C3 amended: a first response without tool calls ends the run after one
\* Model Step and no Tool Step; the outcome is completed with the content as
\* final summary when the content is not empty, and failed with "Could not
\* determine final summary" when it is empty
C3_FirstPlainAmended ==
    FirstResponsePlain
    => /\ turns = 1
       /\ toolSteps = 0
       /\ node = "end"
       /\ \A j \in 1..Len(outcomes) :
            IF messages[2].content # <<>>
            THEN outcomes[j] = WriteResponse("completed", TRUE,
                                             messages[2].content, <<>>, <<>>)
            ELSE outcomes[j] = Failed(NoSummaryText)

C3_Witness ==
    /\ FirstResponsePlain
    /\ messages[2].content # <<>>
    /\ Len(outcomes) = 1
    /\ outcomes[1].status = "completed"

\* C4: a run is cut off after StepLimit AGENT->ACTION cycles, and a run that
\* was cut off fails with the reason "step limit exceeded"
C4_StepLimitExceeded ==
    /\ toolSteps <= StepLimit
    /\ \A j \in 1..Len(outcomes) :
         (node = "raised" /\ step = RecursionLimit /\ ~modelFailed)
         => outcomes[j].error = <<"step limit exceeded">>

\* C5: a failing model call does not leave the Model Step: the step appends
\* one model message without tool calls that describes the error, and the
\* run goes to END
C5_ModelFailureContained ==
    modelFailed
    => /\ node = "end"
       /\ Len(messages) = turns + toolSteps + 1
       /\ Last(messages).role = "ai"
       /\ Last(messages).tool_calls = <<>>
       /\ Last(messages).content # <<>>

\* C6: a run in which a model call failed never returns a completed outcome
C6_ModelFailureFails ==
    modelFailed => \A j \in 1..Len(outcomes) : outcomes[j].status = "failed"

C6_Witness == modelFailed /\ Len(outcomes) = 1

\* C7: a batch in which one call returned and another threw leaves a result
\* message for every call of the batch in the history, in request order, the
\* returned output for the first and an error text for the second, and the
\* run is not aborted
C7_BatchSurvives ==
    \A p \in 1..Len(messages) :
        LET m == messages[p]
            n == Len(m.tool_calls)
            ids == { m.tool_calls[k].id : k \in 1..n }
            ran == { i \in 1..Len(invoked) : invoked[i].call.id \in ids }
        IN  ( /\ m.role = "ai"
              /\ n >= 2
              /\ \E i \in ran : invoked[i].result.kind = "return"
              /\ \E i \in ran : invoked[i].result.kind = "throw" )
            => /\ node # "raised"
               /\ Len(messages) >= p + n
               /\ \A k \in 1..n :
                    /\ messages[p + k].role = "tool"
                    /\ messages[p + k].tool_call_id = m.tool_calls[k].id
                    /\ \A i \in ran :
                         (invoked[i].call.id = m.tool_calls[k].id)
                         => IF invoked[i].result.kind = "return"
                            THEN messages[p + k].content = invoked[i].result.output
                            ELSE Head(messages[p + k].content) = "Error: "

SavedPath == <<"output", SL, "md", SL, "a", ".md">>

\* the scenario of C8: search, save_article(filename "a") answered by the
\* success text, finish("Done")
Scenario ==
    /\ Len(messages) = 7
    /\ messages[2].tool_calls = WithIds(<<SearchCall>>, 1)
    /\ messages[3].role = "tool"
    /\ messages[4].tool_calls = WithIds(<<SaveCall>>, 2)
    /\ messages[5].content = <<"Article", SP, MARK, SP>> \o SavedPath
    /\ messages[6].tool_calls = WithIds(<<FinishCall>>, 3)
    /\ messages[7].role = "tool"

\* C8: the scenario ends the run, and its outcome is completed with final
\* summary "Done" and the artifact map {"a.md": "output/md/a.md"}
C8_Scenario ==
    Scenario
    => /\ node = "end"
       /\ Ended =>
            outcomes = <<WriteResponse("completed", TRUE, <<"Done">>, <<>>,
                                       [k \in {<<"a", ".md">>} |-> SavedPath])>>

C8_Witness == Scenario /\ Ended

\* C9: for every success output of save_article, "... successfully saved to
\* <path>", a completed outcome maps the last segment of <path> to <path>,
\* <path> being the trimmed remainder of the output after the marker
C9_RoundTrip ==
    (Ended /\ Len(outcomes) = 1 /\ outcomes[1].status = "completed")
    => \A i \in 1..Len(tool_outputs["save_article"]) :
         LET output == tool_outputs["save_article"][i].text
             path == Strip(AfterFirst(output, MARK))
         IN  Contains(output, MARK)
             => /\ PathName(path) \in DOMAIN outcomes[1].file_paths
                /\ outcomes[1].file_paths[PathName(path)] = path

\* C10: when the route has collected an output of the finish tool, the final
\* summary is the content of that output, whatever the last message of the
\* final state holds
C10_FinishPreferred ==
    (rpc = "done" /\ tool_outputs["finish"] # <<>>)
    => LET finish_output == tool_outputs["finish"][1].text
       IN  /\ finish_output # <<>>
                => /\ outcomes[1].status = "completed"
                   /\ outcomes[1].content = finish_output
           /\ outcomes[1].has_content => outcomes[1].content = finish_output

\* a finish output and a final state whose last message is a usable text
C10_Witness ==
    /\ rpc = "done"
    /\ tool_outputs["finish"] # <<>>
    /\ tool_outputs["finish"][1].text = <<"Done">>
    /\ Truthy(final_state)
    /\ Last(final_state.messages).role = "ai"
    /\ Last(final_state.messages).content = <<"Text">>
    /\ Last(final_state.messages).tool_calls = <<>>
    /\ outcomes[1].content = <<"Done">>

\* C11: without an output of the finish tool, the final summary of an
\* outcome is the content of the last message of the final state, and only
\* when that message is a model message with non-empty content and without
\* tool calls; a seed message or a tool result is never the final summary
C11_LastMessageFallback ==
    (rpc = "done" /\ tool_outputs["finish"] = <<>> /\ outcomes[1].has_content)
    => /\ Truthy(final_state)
       /\ final_state.messages # <<>>
       /\ Last(final_state.messages).role = "ai"
       /\ Last(final_state.messages).content # <<>>
       /\ Last(final_state.messages).tool_calls = <<>>
       /\ outcomes[1].content = Last(final_state.messages).content

\* the response holds something of the run besides the fixed reason text
HasDetail(resp, reason) ==
    \/ resp.metadata # <<>>
    \/ resp.has_content
    \/ Len(resp.error) > Len(reason)

\* no output of finish, and no last message that is a model message with
\* non-empty content and without tool calls
NoUsableSummary ==
    /\ tool_outputs["finish"] = <<>>
    /\ ~ ( /\ Truthy(final_state)
           /\ final_state.messages # <<>>
           /\ Last(final_state.messages).role = "ai"
           /\ Last(final_state.messages).content # <<>>
           /\ Last(final_state.messages).tool_calls = <<>> )

\* C12: a run that ends without an output of finish and without a usable
\* last message returns a failed outcome whose reason is "Could not determine
\* final summary" and which carries the tail of the history as detail
C12_NoSummaryFails ==
    (rpc = "done" /\ NoUsableSummary)
    => /\ Len(outcomes) = 1
       /\ outcomes[1].status = "failed"
       /\ SubSeq(outcomes[1].error, 1, Len(NoSummaryText)) = NoSummaryText
       /\ HasDetail(outcomes[1], NoSummaryText)

\* C13: a stream that ends without an event of finish and without a usable
\* final state gives the outcome of a run whose final summary could not be
\* determined: failed, with the reason "Could not determine final summary"
C13_EndedStreamIsStep3 ==
    (rpc = "done" /\ NoUsableSummary)
    => outcomes = <<Failed(NoSummaryText)>>

FileTools == {"save_article", "save_image_with_compression"}

\* C14: whatever the final summary, and whether or not there is one, the
\* artifact map of the outcome of a run that came to its end has an entry (last path segment -> path) for
\* every output of save_article and save_image_with_compression of the run
\* that holds the marker, and no other entry
C14_ArtifactsIndependent ==
    (rpc = "done" /\ Len(outcomes) = 1)
    => LET file_paths == outcomes[1].file_paths
           saved == { i \in 1..Len(invoked) :
                        /\ invoked[i].call.name \in FileTools
                        /\ invoked[i].result.kind = "return"
                        /\ Contains(invoked[i].result.output, MARK) }
           path(i) == Strip(AfterFirst(invoked[i].result.output, MARK))
       IN  /\ \A i \in saved :
                /\ PathName(path(i)) \in DOMAIN file_paths
                /\ file_paths[PathName(path(i))] = path(i)
           /\ \A k \in DOMAIN file_paths : \E i \in saved : PathName(path(i)) = k

\* C15: the route takes both encodings of a tool output: a completed outcome
\* has an entry for the file of every dict output with the key file_path and
\* an entry for every str output of a file-producing tool with the marker,
\* and no output makes the extraction raise
C15_BothEncodings ==
    rpc = "done"
    => /\ outcomes[1].error # TypeErrorText
       /\ outcomes[1].status = "completed"
            => \A i \in 1..Len(invoked) :
                 LET result == invoked[i].result
                 IN  /\ (result.kind = "return" /\ result.key = "file_path")
                         => /\ PathName(result.output)
                                  \in DOMAIN outcomes[1].file_paths
                            /\ outcomes[1].file_paths[PathName(result.output)]
                                  = result.output
                     /\ ( /\ result.kind = "return"
                          /\ result.key = ""
                          /\ invoked[i].call.name \in FileTools
                          /\ Contains(result.output, MARK) )
                         => outcomes[1].file_paths # <<>>

\* C16: a call of a name that is not registered is answered by a message
\* whose content gives the reason "tool not found" and lists the registered
\* names, and the run is not aborted by it
C16_ToolNotFound ==
    \A p \in 1..Len(messages) :
        (messages[p].role = "tool" /\ messages[p].name \notin tools)
        => /\ \E i \in 1..Len(messages[p].content) :
                messages[p].content[i] \in {"tool not found", " not found"}
           /\ \A n \in tools : Contains(messages[p].content, n)
           /\ node # "raised"

OtherRequest(r) == 3 - r

\* the text names the article of the other request
ForeignText(r, text) == Contains(text, article_id(OtherRequest(r)))

ForeignMessage(r, m) ==
    \/ ForeignText(r, m.content)
    \/ \E k \in 1..Len(m.tool_calls) : ForeignText(r, m.tool_calls[k].args)

ForeignVal(r, v) ==
    \/ ForeignText(r, v.text)
    \/ \E i \in 1..Len(v.messages) : ForeignMessage(r, v.messages[i])

\* C18: under every interleaving of the steps of two concurrent requests,
\* the history, the collected tool outputs, the final state and the response
\* of a request hold nothing of the other request, the history of a request
\* starts with its own seed message, and the tools list is never changed
C18_RunsIndependent ==
    /\ registry = tool_names
    /\ \A r \in DOMAIN runs :
         LET s == runs[r]
         IN  /\ s.messages[1] = HumanMessage(PromptOf(r))
             /\ \A i \in 1..Len(s.messages) : ~ForeignMessage(r, s.messages[i])
             /\ \A i \in 1..Len(s.stream) : ~ForeignVal(r, s.stream[i].output)
             /\ \A n \in tools : \A i \in 1..Len(s.tool_outputs[n]) :
                    ~ForeignVal(r, s.tool_outputs[n][i])
             /\ ~ForeignVal(r, s.final_state)
             /\ \A j \in 1..Len(s.outcomes) :
                    /\ ~ForeignText(r, s.outcomes[j].content)
                    /\ \A k \in DOMAIN s.outcomes[j].file_paths :
                         /\ ~ForeignText(r, k)
                         /\ ~ForeignText(r, s.outcomes[j].file_paths[k])

\* both requests saved their article and completed
C18_Witness ==
    /\ runs # <<>>
    /\ \A r \in DOMAIN runs :
         /\ runs[r].rpc = "done"
         /\ Len(runs[r].outcomes) = 1
         /\ runs[r].outcomes[1].status = "completed"
         /\ runs[r].outcomes[1].file_paths # <<>>

\* the branch returned a failure
BranchFailed(i) ==
    /\ fan.results[i].kind = "return"
    /\ \/ fan.results[i].key = "error"
       \/ fan.results[i].output = TranslationErrorText

\* the branch produced a file: an image written, or a translation that
\* save_article then saved
BranchArtifact(i) ==
    IF fan.route = "images" THEN fan.results[i].key = "file_path"
    ELSE /\ fan.results[i].kind = "return"
         /\ ~BranchFailed(i)
         /\ Contains(fan.saved[i].output, MARK)

ArtifactPath(i) ==
    IF fan.route = "images" THEN fan.results[i].output
    ELSE MdPath(TransDir, TransFilename(fan.inputs[i]))

\* C19: the response of a fan-out request over an existing source file is
\* built after every branch has come to its end; it is a completed response,
\* not an error response, whatever branches failed; its artifact map holds
\* the file of every branch that produced one; every failure was logged
C19_FanOutPartial ==
    (fan.phase = "done" /\ fan.is_file)
    => /\ Joined(fan.results)
       /\ fan.response.kind = "WriteResponse"
       /\ fan.response.status = "completed"
       /\ \A i \in 1..Len(fan.inputs) :
            /\ BranchFailed(i) => i \in fan.logged
            /\ BranchArtifact(i)
                 => /\ PathName(ArtifactPath(i)) \in DOMAIN fan.response.file_paths
                    /\ fan.response.file_paths[PathName(ArtifactPath(i))]
                          = ArtifactPath(i)

\* one branch failed, another produced a file, and the response holds it
C19_Witness ==
    /\ fan.phase = "done"
    /\ fan.is_file
    /\ \E i, j \in 1..Len(fan.inputs) :
         /\ BranchFailed(i)
         /\ BranchArtifact(j)
         /\ PathName(ArtifactPath(j)) \in DOMAIN fan.response.file_paths

\* the event is a graph end whose last message has content and no tool calls
EndsWithText(e) ==
    /\ e.event = "on_graph_end"
    /\ e.output.messages # <<>>
    /\ Last(e.output.messages).content # <<>>
    /\ Last(e.output.messages).tool_calls = <<>>

\* the event is the end of save_article with a success text
SaveSucceeded(e) ==
    /\ e.event = "on_tool_end"
    /\ e.name = "save_article"
    /\ e.output.t = "str"
    /\ Contains(e.output.text, MARK)

\* C20: a stream of a graph end whose last message has non-empty content
\* and no tool calls and of a save_article end with a success text, in either
\* order, gives a completed response whose file_paths hold the saved path
C20_WriteStream ==
    ( /\ rpc = "done"
      /\ Len(consumed) = 2
      /\ \E i, j \in 1..2 :
           i # j /\ EndsWithText(consumed[i]) /\ SaveSucceeded(consumed[j]) )
    => /\ outcomes[1].status = "completed"
       /\ <<"a", ".md">> \in DOMAIN outcomes[1].file_paths
       /\ outcomes[1].file_paths[<<"a", ".md">>] = SavedPath

-----------------------------------------------------------------------------
(* The transitions of the graph *)

\* the step is a Model Step / a Tool Step of the graph
ModelStep == turns' = turns + 1
ToolStep == toolSteps' = toolSteps + 1

\* C21: after every Model Step the run is in END if the message just
\* appended has no tool calls and in ACTION if it has some, there is no other
\* successor, and the Tool Step is never entered with an empty tool_calls
C21_AgentTransition ==
    [][/\ ModelStep =>
            /\ Len(messages') = Len(messages) + 1
            /\ node' \in {"end", "action"}
            /\ node' = "end" <=> Last(messages').tool_calls = <<>>
       /\ node' = "action" => Last(messages').tool_calls # <<>>]_vars

\* the calls a Tool Step answers: those of the message it starts from
Answered == Last(messages).tool_calls

\* C22: after every Tool Step, of one call or of several, the run is in END
\* if the call just answered is named "finish" and back in AGENT otherwise
C22_ActionTransition ==
    [][ToolStep =>
         node' = IF \E k \in 1..Len(Answered) : Answered[k].name = "finish"
                 THEN "end" ELSE "agent"]_vars

\* C23: when after_tool_call runs, the last message is a tool result and
\* the second to last is the model message carrying the calls just
\* answered, whatever the number of calls the Tool Step answered
C23_SecondToLastIsModel ==
    [][ToolStep =>
         /\ Last(messages').role = "tool"
         /\ messages'[Len(messages') - 1].role = "ai"
         /\ messages'[Len(messages') - 1].tool_calls = Answered]_vars

\* C24: within a run Model Step and Tool Step alternate strictly: the first
\* step is a Model Step, a Model Step starts only when every earlier Model
\* Step was followed by a Tool Step, a Tool Step only right after a Model
\* Step, and no step is both
C24_StrictAlternation ==
    [][/\ ModelStep => (node = "agent" /\ turns = toolSteps)
       /\ ToolStep => (node = "action" /\ turns = toolSteps + 1)
       /\ ~(ModelStep /\ ToolStep)]_vars

\* a run of four steps: Model, Tool, Model, Tool
C24_Witness == turns = 2 /\ toolSteps = 2

IsPrefix(a, b) == Len(a) <= Len(b) /\ SubSeq(b, 1, Len(a)) = a

\* C25: the history is append-only and grows by exact amounts: it is a
\* prefix of the history after any step, every Model Step, successful or
\* failed, appends exactly one message, and every Tool Step appends exactly
\* one tool-result message per requested call
C25_AppendOnlyExact ==
    [][/\ IsPrefix(messages, messages')
       /\ ModelStep => Len(messages') = Len(messages) + 1
       /\ ToolStep =>
            /\ Len(messages') = Len(messages) + Len(Answered)
            /\ \A k \in 1..Len(Answered) :
                 messages'[Len(messages) + k].role = "tool"]_vars

\* the positions of the history holding a tool result / a requested call
ToolResultsAt == { p \in 1..Len(messages) : messages[p].role = "tool" }
RequestsAt ==
    { <<q, k>> \in (1..Len(messages)) \X (1..MaxBatch + 1) :
        messages[q].role = "ai" /\ k <= Len(messages[q].tool_calls) }

\* the tool result at p answers the call k of the model message at q
Answers(p, q, k) ==
    /\ q < p
    /\ messages[q].tool_calls[k].id = messages[p].tool_call_id
    /\ messages[q].tool_calls[k].name = messages[p].name

\* C26: every tool result is preceded by a model message whose tool_calls
\* holds the call it answers, no call is answered twice, and no executed
\* call is left without its tool result
C26_CallsMatchResults ==
    /\ \A p \in ToolResultsAt : \E r \in RequestsAt : Answers(p, r[1], r[2])
    /\ \A r \in RequestsAt :
         Cardinality({ p \in ToolResultsAt : Answers(p, r[1], r[2]) }) <= 1
    /\ \A i \in 1..Len(invoked) :
         \E p \in ToolResultsAt : messages[p].tool_call_id = invoked[i].call.id

\* a batch of two calls has been executed and answered
C26_Witness ==
    /\ Len(invoked) >= 2
    /\ \E r \in RequestsAt : r[2] = 2 /\ \E p \in ToolResultsAt : Answers(p, r[1], 2)

\* the model message at q has been answered by a Tool Step
AnsweredAt(q) ==
    /\ messages[q].role = "ai"
    /\ messages[q].tool_calls # <<>>
    /\ q < Len(messages)

\* C27: the result messages of one Tool Step are appended in the order in
\* which the calls were requested, whatever the order in which the
\* concurrently dispatched invocations completed
C27_ResultsInRequestOrder ==
    \A q \in 1..Len(messages) :
        AnsweredAt(q) =>
            /\ Len(messages) >= q + Len(messages[q].tool_calls)
            /\ \A k \in 1..Len(messages[q].tool_calls) :
                 /\ messages[q + k].role = "tool"
                 /\ messages[q + k].tool_call_id = messages[q].tool_calls[k].id
                 /\ messages[q + k].name = messages[q].tool_calls[k].name

\* a batch [save_image_with_compression, finish] whose finish invocation
\* completed first: its events reached the route in completion order
C27_Witness ==
    /\ Len(consumed) >= 2
    /\ consumed[1].event = "on_tool_end" /\ consumed[1].name = "finish"
    /\ consumed[2].event = "on_tool_end"
    /\ consumed[2].name = "save_image_with_compression"
    /\ Len(messages) = 4
    /\ messages[2].tool_calls[1].name = "save_image_with_compression"
    /\ messages[2].tool_calls[2].name = "finish"
    /\ messages[3].name = "save_image_with_compression"
    /\ messages[4].name = "finish"

\* the events of the run in the order the graph emitted them
Delivered == consumed \o stream

\* C28: execute-then-check: a requested finish call is executed by the Tool
\* Step before the run stops; whenever the run is in END every requested
\* finish call has its own output in the history as a tool result, and the
\* finish output was emitted to the extractor before the graph-end event
C28_ExecuteThenCheck ==
    node = "end" =>
        \A r \in RequestsAt :
            LET call == messages[r[1]].tool_calls[r[2]]
            IN  call.name = "finish" =>
                  /\ \E p \in ToolResultsAt :
                        /\ Answers(p, r[1], r[2])
                        /\ messages[p].content = call.args
                  /\ \E i \in 1..Len(invoked) :
                        /\ invoked[i].call = call
                        /\ invoked[i].result = Returned(call.args)
                  /\ \E i, j \in 1..Len(Delivered) :
                        /\ i < j
                        /\ Delivered[i] = on_tool_end("finish", call.args)
                        /\ Delivered[j].event = "on_graph_end"

\* a run that ended because of finish, and whose route has collected the
\* finish output
C28_Witness ==
    /\ node = "end"
    /\ rpc = "done"
    /\ Last(messages).role = "tool" /\ Last(messages).name = "finish"
    /\ tool_outputs["finish"] = <<StrVal(<<"Done">>)>>

\* C29: no retry inside the Model Step: after a failed model call no
\* further Model Step or Tool Step is executed in the run, and the failing
\* step itself leaves the run stopped
C29_NoRetry ==
    [][/\ modelFailed => ~ModelStep /\ ~ToolStep
       /\ modelFailed' => node' \notin {"agent", "action"}]_vars

\* the second model call of a run failed, after a Tool Step
C29_Witness == modelFailed /\ turns = 2 /\ toolSteps = 1

\* the outputs of the invocations of the tool n that returned, in the order
\* the calls were requested
InvokedOutputs(n) ==
    LET sel == SelectSeq(invoked,
                         LAMBDA x : /\ x.call.name = n
                                    /\ n \in tools
                                    /\ x.result.kind = "return")
    IN  [i \in 1..Len(sel) |-> OutputVal(sel[i].result)]

\* C30: step events reach the consumer in the order the steps executed: for
\* every tool name the outputs the route has collected are the first outputs
\* of the tool's invocations, in the order of the invocations, and all of
\* them once the route has returned; every tool-end event precedes the
\* graph-end event, which is the last event consumed
C30_EventsInStepOrder ==
    /\ \A n \in DOMAIN tool_outputs :
         /\ IsPrefix(tool_outputs[n], InvokedOutputs(n))
         /\ rpc = "done" => tool_outputs[n] = InvokedOutputs(n)
    /\ \A i \in 1..Len(Delivered) :
         Delivered[i].event = "on_graph_end" => i = Len(Delivered)
    /\ rpc = "done" =>
         consumed # <<>> /\ Last(consumed).event = "on_graph_end"

-----------------------------------------------------------------------------
(* The outcome of the agent routes *)

\* C31: every outcome with status completed carries a final summary that is
\* not empty, whatever events the stream delivered
C31_CompletedHasSummary ==
    \A j \in 1..Len(outcomes) :
        outcomes[j].status = "completed"
            => outcomes[j].has_content /\ outcomes[j].content # <<>>

\* a completed outcome whose summary is the content of the last message
C31_Witness ==
    /\ rpc = "done"
    /\ tool_outputs["finish"] = <<>>
    /\ outcomes[1].status = "completed"
    /\ outcomes[1].content = <<"Text">>

\* the last message of the final state is a usable summary
UsableLast(fs) ==
    /\ Truthy(fs)
    /\ fs.messages # <<>>
    /\ Last(fs.messages).role = "ai"
    /\ Last(fs.messages).content # <<>>
    /\ Last(fs.messages).tool_calls = <<>>

\* C32: once finish has produced an output the last message is not
\* consulted: the final summary is the finish output, and when that output
\* is empty the outcome is failed with "Could not determine final summary",
\* also when the last message of the final state has usable content
C32_NoFallbackAfterFinish ==
    (rpc = "done" /\ tool_outputs["finish"] # <<>>)
    => IF tool_outputs["finish"][1].text # <<>>
       THEN /\ outcomes[1].status = "completed"
            /\ outcomes[1].content = tool_outputs["finish"][1].text
       ELSE /\ outcomes[1].status = "failed"
            /\ ~outcomes[1].has_content
            /\ outcomes[1].error = NoSummaryText

\* an empty finish output, a usable last message, and a failed outcome
C32_Witness ==
    /\ rpc = "done"
    /\ tool_outputs["finish"] = <<StrVal(<<>>)>>
    /\ UsableLast(final_state)
    /\ outcomes[1].status = "failed"
    /\ outcomes[1].error = NoSummaryText

\* C33: when finish was invoked more than once in a run, the final summary
\* of the run's outcome is the output of the first finish invocation in
\* event order, and a later finish output never replaces it
C33_FirstFinishWins ==
    (Ended /\ Len(tool_outputs["finish"]) >= 2)
    => /\ Len(outcomes) = 1
       /\ tool_outputs["finish"][1].text # <<>>
            => /\ outcomes[1].status = "completed"
               /\ outcomes[1].content = tool_outputs["finish"][1].text
       /\ outcomes[1].has_content
            => outcomes[1].content = tool_outputs["finish"][1].text

\* a file-producing tool of the run returned a text that reports a saved file
SavedEarlier ==
    \E i \in 1..Len(invoked) :
        /\ invoked[i].call.name \in FileTools
        /\ invoked[i].result.kind = "return"
        /\ Contains(invoked[i].result.output, MARK)

\* C34: a failed outcome carries no content and an empty artifact map, also
\* when file-producing tools succeeded earlier in the run; artifact paths
\* are reported by completed outcomes only
C34_FailedIsBare ==
    \A j \in 1..Len(outcomes) :
        /\ outcomes[j].status = "failed"
             => /\ ~outcomes[j].has_content
                /\ outcomes[j].content = <<>>
                /\ outcomes[j].file_paths = <<>>
        /\ outcomes[j].file_paths # <<>> => outcomes[j].status = "completed"

\* a run saved a file, ended without final summary, and its failed outcome
\* has no artifact
C34_Witness ==
    /\ rpc = "done"
    /\ SavedEarlier
    /\ tool_outputs["save_article"] # <<>>
    /\ outcomes[1].status = "failed"
    /\ outcomes[1].file_paths = <<>>

-----------------------------------------------------------------------------
(* The translation fan-out *)

\* the file of the translation into lang
TransPath(lang) == MdPath(TransDir, TransFilename(lang))

\* C35: in the translation fan-out the artifact map has an entry for a
\* target language only if the translation into that language succeeded and
\* its save succeeded; a language whose translation failed yields neither a
\* saved file nor an entry
C35_OnlyTranslatedSaved ==
    (fan.phase = "done" /\ fan.route = "translate"
        /\ fan.response.kind = "WriteResponse")
    => /\ \A lang \in Languages :
            PathName(TransPath(lang)) \in DOMAIN fan.response.file_paths
            => \E i \in 1..Len(fan.inputs) :
                  /\ fan.inputs[i] = lang
                  /\ ~BranchFailed(i)
                  /\ Contains(fan.saved[i].output, MARK)
       /\ \A i \in 1..Len(fan.inputs) :
            BranchFailed(i) => ~Contains(fan.saved[i].output, MARK)

-----------------------------------------------------------------------------
(* The two phases of /write/from-existing *)

\* an invocation of the translation phase has happened
TranslationActed ==
    \/ \E i \in 1..Len(fan.results) : fan.results[i].kind # "pending"
    \/ fan.saved # <<>>

\* C37: the translation phase comes strictly after the agent phase: no
\* translate or save invocation of it happens unless the agent's stream has
\* ended and a final summary that is not empty was extracted; when the main
\* article file is absent the phase is skipped and the outcome is completed
C37_TranslationAfterAgent ==
    /\ TranslationActed
         => /\ stream = <<>>
            /\ rpc \in {"translate", "done"}
            /\ FinalSummary(final_state, tool_outputs) # <<>>
            /\ fan.response.status = "completed"
            /\ fan.response.content = FinalSummary(final_state, tool_outputs)
            /\ fan.is_file
    /\ fan.saved # <<>> => Joined(fan.results)
    /\ (fan.phase = "done" /\ rpc = "done" /\ ~fan.is_file
          /\ FinalSummary(final_state, tool_outputs) # <<>>)
         => /\ ~TranslationActed
            /\ outcomes = <<ExistingResponse(
                               FinalSummary(final_state, tool_outputs),
                               ScanOutputs(<<>>, tool_outputs["save_article"]))>>

\* both languages were translated and saved after an agent run that ended
\* with the summary "Done", and the outcome lists a file of the phase
C37_Witness ==
    /\ rpc = "done"
    /\ Len(fan.inputs) >= 2
    /\ Len(fan.saved) = Len(fan.inputs)
    /\ consumed # <<>>
    /\ Len(outcomes) = 1
    /\ outcomes[1].status = "completed"
    /\ outcomes[1].content = <<"Done">>
    /\ \E lang \in Languages :
         PathName(MdPath(ExistTransDir, ExistFilename(lang)))
            \in DOMAIN outcomes[1].file_paths

====
